---- MODULE Spec2Model ----
(***************************************************************************)
(* mutex.h: a mutex_t wrapping a CRITICAL_SECTION (Windows with the SDK),  *)
(* a pthread_mutex_t (POSIX) or nothing (Windows with                      *)
(* FLUENT_LIBC_NO_WINDOWS_SDK), and mutex_init / mutex_lock / mutex_unlock *)
(* / mutex_destroy forwarding to the native primitive.                     *)
(*                                                                         *)
(* The native primitive is modelled by its documented contract.  A call    *)
(* whose behaviour the platform leaves undefined (locking an uninitialised *)
(* or destroyed mutex, unlocking a mutex the caller does not own,          *)
(* relocking a default pthread mutex, initialising an initialised one,     *)
(* destroying an owned one) moves the primitive to "Undef"; such a call    *)
(* either returns or never does, and a run is not followed past it: no     *)
(* native call is modelled on a primitive in state "Undef".                *)
(***************************************************************************)
EXTENDS Integers, FiniteSets, Sequences, TLC

\* ------------------------------------------------------------- bounds
NThreads == 2      \* worker threads
MIters == 2        \* lock; increment; unlock iterations of each worker
MaxInits == 2      \* calls of mutex_init by the main thread
MaxSteps == 7      \* wrapper calls in a free-form run (SpecAny)

Threads == 1..NThreads
Main == NThreads + 1

\* ------------------------------------------------------------- build
\* The three bodies the preprocessor can select (#ifdef _WIN32 /
\* #ifndef FLUENT_LIBC_NO_WINDOWS_SDK).
Backends == {"posix", "win_sdk", "win_nosdk"}

\* Nonzero results of pthread_mutex_init (EAGAIN, ENOMEM).
PosixErrors == {11, 12}
Statuses == {0, -1} \cup PosixErrors

VARIABLES
    backend,    \* the body compiled in
    st,         \* native primitive: "Uninit", "Ready", "Locked", "Destroyed", "Undef"
    owner,      \* {} when free, {t} when thread t owns the primitive
    count,      \* acquisitions the owner holds (RecursionCount on Windows)
    live,       \* native primitives initialised and not yet destroyed
    platform,   \* last platform initialisation call: "none", "ok", "failed", "absent", "undefined"
    ret,        \* {} or {status}: what the last mutex_init call returned
    op,         \* last wrapper call that reached the native primitive: its name,
                \* its caller and the primitive's state before it
    inits,      \* calls of mutex_init so far
    pc,         \* each worker's position
    mpc,        \* the main thread's position
    counter,    \* the shared counter the workers increment
    tmp,        \* each worker's copy of the counter
    iter,       \* iterations each worker has finished
    entries,    \* returns of mutex_lock so far
    exits,      \* calls of mutex_unlock so far
    ignored,    \* the main thread went on after mutex_init returned nonzero
    steps       \* wrapper calls so far in a free-form run

native == <<st, owner, count, live>>
vars == <<backend, st, owner, count, live, platform, ret, op, inits,
          pc, mpc, counter, tmp, iter, entries, exits, ignored, steps>>

Real == backend \in {"posix", "win_sdk"}

\* ------------------------------------------------------------- native calls
\* A call on a primitive in a state the platform leaves undefined.
Undefined(out) ==
    /\ out \in {"returned", "hung"}
    /\ st' = "Undef"
    /\ UNCHANGED <<owner, count>>

\* pthread_mutex_init(&m->mutex, NULL): a default mutex.
pthread_mutex_init(status, out) ==
    \/ /\ st \in {"Uninit", "Destroyed"}
       /\ out = "returned"
       /\ \/ /\ status = 0
             /\ st' = "Ready" /\ owner' = {} /\ count' = 0
             /\ live' = live + 1
             /\ platform' = "ok"
          \/ /\ status \in PosixErrors
             /\ UNCHANGED native
             /\ platform' = "failed"
    \/ /\ st \in {"Ready", "Locked"}
       /\ Undefined(out)
       /\ status \in {0} \cup PosixErrors
       /\ live' \in {live, live + 1}
       /\ platform' = "undefined"

\* InitializeCriticalSection(&m->cs): returns nothing; in low memory it
\* raises STATUS_NO_MEMORY (before Windows Vista).
InitializeCriticalSection(out) ==
    \/ /\ st \in {"Uninit", "Destroyed"}
       /\ \/ /\ out = "returned"
             /\ st' = "Ready" /\ owner' = {} /\ count' = 0
             /\ live' = live + 1
             /\ platform' = "ok"
          \/ /\ out = "raised"
             /\ UNCHANGED native
             /\ platform' = "failed"
    \/ /\ st \in {"Ready", "Locked"}
       /\ Undefined(out)
       /\ live' \in {live, live + 1}
       /\ platform' = "undefined"

\* A pthread_mutex_lock that times out: it returns, without the mutex, after
\* waiting for a thread that still owns it.
pthread_mutex_lock_timed(t, out) ==
    \/ /\ st = "Ready"
       /\ out = "returned"
       /\ st' = "Locked" /\ owner' = {t} /\ count' = 1
       /\ UNCHANGED live
    \/ /\ st = "Locked" /\ owner # {t}
       /\ out = "returned"
       /\ UNCHANGED native
    \/ /\ \/ st \in {"Uninit", "Destroyed"}
          \/ st = "Locked" /\ owner = {t}
       /\ Undefined(out)
       /\ UNCHANGED live

\* A default pthread mutex that counts acquisitions by its owner, as a
\* PTHREAD_MUTEX_RECURSIVE one does.
pthread_mutex_lock_recursive(t, out) ==
    \/ /\ st = "Ready"
       /\ out = "returned"
       /\ st' = "Locked" /\ owner' = {t} /\ count' = 1
       /\ UNCHANGED live
    \/ /\ st = "Locked" /\ owner = {t}
       /\ out = "returned"
       /\ count' = count + 1
       /\ UNCHANGED <<st, owner, live>>
    \/ /\ st \in {"Uninit", "Destroyed"}
       /\ Undefined(out)
       /\ UNCHANGED live

\* pthread_mutex_lock(&m->mutex): waits while another thread owns the mutex.
pthread_mutex_lock(t, out) ==
    \/ /\ st = "Ready"
       /\ out = "returned"
       /\ st' = "Locked" /\ owner' = {t} /\ count' = 1
       /\ UNCHANGED live
    \/ /\ \/ st \in {"Uninit", "Destroyed"}
          \/ st = "Locked" /\ owner = {t}
       /\ Undefined(out)
       /\ UNCHANGED live

\* EnterCriticalSection(&m->cs): waits while another thread owns the
\* section; the owner enters again at once.
EnterCriticalSection(t, out) ==
    \/ /\ st = "Ready"
       /\ out = "returned"
       /\ st' = "Locked" /\ owner' = {t} /\ count' = 1
       /\ UNCHANGED live
    \/ /\ st = "Locked" /\ owner = {t}
       /\ out = "returned"
       /\ count' = count + 1
       /\ UNCHANGED <<st, owner, live>>
    \/ /\ st \in {"Uninit", "Destroyed"}
       /\ Undefined(out)
       /\ UNCHANGED live

\* A pthread_mutex_unlock that returns and leaves the mutex owned.
pthread_mutex_unlock_stuck(t, out) ==
    /\ st # "Undef"
    /\ out = "returned"
    /\ UNCHANGED native

\* pthread_mutex_unlock(&m->mutex)
pthread_mutex_unlock(t, out) ==
    \/ /\ st = "Locked" /\ owner = {t}
       /\ out = "returned"
       /\ st' = "Ready" /\ owner' = {} /\ count' = 0
       /\ UNCHANGED live
    \/ /\ st # "Undef"
       /\ ~(st = "Locked" /\ owner = {t})
       /\ Undefined(out)
       /\ UNCHANGED live

\* LeaveCriticalSection(&m->cs)
LeaveCriticalSection(t, out) ==
    \/ /\ st = "Locked" /\ owner = {t}
       /\ out = "returned"
       /\ count' = count - 1
       /\ IF count = 1
          THEN st' = "Ready" /\ owner' = {}
          ELSE UNCHANGED <<st, owner>>
       /\ UNCHANGED live
    \/ /\ st # "Undef"
       /\ ~(st = "Locked" /\ owner = {t})
       /\ Undefined(out)
       /\ UNCHANGED live

\* A native destroy that marks the primitive destroyed and keeps its
\* resources.
NativeDestroy_leaks(out) ==
    \/ /\ st = "Ready"
       /\ out = "returned"
       /\ st' = "Destroyed"
       /\ UNCHANGED <<owner, count, live>>
    \/ /\ st \in {"Uninit", "Locked", "Destroyed"}
       /\ Undefined(out)
       /\ UNCHANGED live

\* pthread_mutex_destroy(&m->mutex) and DeleteCriticalSection(&m->cs)
NativeDestroy(out) ==
    \/ /\ st = "Ready"
       /\ out = "returned"
       /\ st' = "Destroyed"
       /\ live' = live - 1
       /\ UNCHANGED <<owner, count>>
    \/ /\ st = "Locked"
       /\ Undefined(out)
       /\ live' \in {live, live - 1}
    \/ /\ st \in {"Uninit", "Destroyed"}
       /\ Undefined(out)
       /\ UNCHANGED live

\* ------------------------------------------------------------- the wrapper
\* A mutex_init whose body without the Windows SDK reports success.
mutex_init_stub_ok(status, out) ==
    CASE backend = "win_sdk" ->
            /\ InitializeCriticalSection(out)
            /\ status = 0
      [] backend = "win_nosdk" ->
            /\ status = 0
            /\ out = "returned"
            /\ platform' = "absent"
            /\ UNCHANGED native
      [] backend = "posix" ->
            pthread_mutex_init(status, out)

\* A mutex_init that drops the result of pthread_mutex_init and returns 0,
\* as the Windows body does.
mutex_init_drop_status(status, out) ==
    CASE backend = "win_sdk" ->
            /\ InitializeCriticalSection(out)
            /\ status = 0
      [] backend = "win_nosdk" ->
            /\ status = -1
            /\ out = "returned"
            /\ platform' = "absent"
            /\ UNCHANGED native
      [] backend = "posix" ->
            /\ \E s \in Statuses : pthread_mutex_init(s, out)
            /\ status = 0

\* int mutex_init(mutex_t *m): status is the value returned when out is
\* "returned".
mutex_init(status, out) ==
    CASE backend = "win_sdk" ->
            /\ InitializeCriticalSection(out)
            /\ status = 0
      [] backend = "win_nosdk" ->
            /\ status = -1
            /\ out = "returned"
            /\ platform' = "absent"
            /\ UNCHANGED native
      [] backend = "posix" ->
            pthread_mutex_init(status, out)

\* A mutex_lock compiled to the empty body on every build.
mutex_lock_empty(t, out) ==
    out = "returned" /\ UNCHANGED native

\* A mutex_lock that gives up waiting: it returns while another thread
\* still owns the primitive.
mutex_lock_nowait(t, out) ==
    \/ /\ Real /\ st = "Locked" /\ owner # {t}
       /\ out = "returned"
       /\ UNCHANGED native
    \/ /\ backend = "win_sdk" /\ EnterCriticalSection(t, out)
    \/ /\ backend = "posix" /\ pthread_mutex_lock(t, out)
    \/ /\ backend = "win_nosdk" /\ out = "returned" /\ UNCHANGED native

\* A mutex_lock whose body without the Windows SDK was not left empty: it
\* forwards to the native lock call on every build.
mutex_lock_forwards(t, out) ==
    CASE backend = "win_sdk" -> EnterCriticalSection(t, out)
      [] backend = "win_nosdk" -> EnterCriticalSection(t, out)
      [] backend = "posix" -> pthread_mutex_lock(t, out)

\* void mutex_lock(mutex_t *m)
mutex_lock(t, out) ==
    CASE backend = "win_sdk" -> EnterCriticalSection(t, out)
      [] backend = "win_nosdk" -> out = "returned" /\ UNCHANGED native
      [] backend = "posix" -> pthread_mutex_lock(t, out)

\* A mutex_unlock compiled to the empty body on every build.
mutex_unlock_empty(t, out) ==
    out = "returned" /\ UNCHANGED native

\* A mutex_unlock pasted from mutex_destroy: it forwards to the native
\* destroy call.
mutex_unlock_destroys(t, out) ==
    CASE backend = "win_sdk" -> NativeDestroy(out)
      [] backend = "win_nosdk" -> out = "returned" /\ UNCHANGED native
      [] backend = "posix" -> NativeDestroy(out)

\* A mutex_unlock that checks ownership itself: a caller that does not
\* hold the mutex is turned away before the native call.
mutex_unlock_checked(t, out) ==
    IF Real /\ ~(st = "Locked" /\ owner = {t})
    THEN out = "returned" /\ UNCHANGED native
    ELSE CASE backend = "win_sdk" -> LeaveCriticalSection(t, out)
           [] backend = "win_nosdk" -> out = "returned" /\ UNCHANGED native
           [] backend = "posix" -> pthread_mutex_unlock(t, out)

\* void mutex_unlock(mutex_t *m)
mutex_unlock(t, out) ==
    CASE backend = "win_sdk" -> LeaveCriticalSection(t, out)
      [] backend = "win_nosdk" -> out = "returned" /\ UNCHANGED native
      [] backend = "posix" -> pthread_mutex_unlock(t, out)

\* A mutex_destroy compiled to the empty body on every build.
mutex_destroy_empty(out) ==
    out = "returned" /\ UNCHANGED native

\* A mutex_destroy that first waits for the mutex to be released.
mutex_destroy_waits(out) ==
    /\ st # "Locked"
    /\ CASE backend = "win_sdk" -> NativeDestroy(out)
         [] backend = "win_nosdk" -> out = "returned" /\ UNCHANGED native
         [] backend = "posix" -> NativeDestroy(out)

\* void mutex_destroy(mutex_t *m)
mutex_destroy(out) ==
    CASE backend = "win_sdk" -> NativeDestroy(out)
      [] backend = "win_nosdk" -> out = "returned" /\ UNCHANGED native
      [] backend = "posix" -> NativeDestroy(out)

Outcomes == {"returned", "raised", "hung"}

\* ------------------------------------------------------------- initial state
Init ==
    /\ backend \in Backends
    /\ st = "Uninit"
    /\ owner = {}
    /\ count = 0
    /\ live = 0
    /\ platform = "none"
    /\ ret = {}
    /\ op = [name |-> "none", by |-> Main, from |-> "Uninit"]
    /\ inits = 0
    /\ pc = [t \in Threads |-> "idle"]
    /\ mpc = "init"
    /\ counter = 0
    /\ tmp = [t \in Threads |-> 0]
    /\ iter = [t \in Threads |-> 0]
    /\ entries = 0
    /\ exits = 0
    /\ ignored = FALSE
    /\ steps = 0

\* Every worker has finished its iterations.
AllFinished == \A t \in Threads : pc[t] = "done"

\* ------------------------------------------------------------- the workload
\* The main thread initialises the mutex (as in the header's example, the
\* status may be looked at or not: after a failure it stops, tries again, or
\* goes on), the workers run lock; counter = counter + 1; unlock while the
\* main thread waits, and the main thread destroys the mutex once no worker
\* is between mutex_lock and mutex_unlock; it may then initialise it again.
MainInit ==
    /\ mpc = "init"
    /\ inits < MaxInits
    /\ \E status \in Statuses, out \in Outcomes, after \in {"end", "init", "run"} :
          /\ mutex_init(status, out)
          /\ ret' = IF out = "returned" THEN {status} ELSE {}
          /\ mpc' = IF out # "returned" THEN out
                    ELSE IF status = 0 THEN "run" ELSE after
          /\ ignored' = (ignored \/ (out = "returned" /\ status # 0 /\ after = "run"))
    /\ inits' = inits + 1
    /\ op' = [name |-> "init", by |-> Main, from |-> st]
    /\ UNCHANGED <<backend, pc, counter, tmp, iter, entries, exits, steps>>

CallLock(t) ==
    /\ mpc = "run"
    /\ pc[t] = "idle"
    /\ iter[t] < MIters
    /\ pc' = [pc EXCEPT ![t] = "inlock"]
    /\ UNCHANGED <<backend, native, platform, ret, op, inits,
                   mpc, counter, tmp, iter, entries, exits, ignored, steps>>

LockReturn(t) ==
    /\ pc[t] = "inlock"
    /\ \E out \in Outcomes :
          /\ mutex_lock(t, out)
          /\ pc' = [pc EXCEPT ![t] = IF out = "returned" THEN "read" ELSE out]
          /\ entries' = IF out = "returned" THEN entries + 1 ELSE entries
    /\ op' = [name |-> "lock", by |-> t, from |-> st]
    /\ UNCHANGED <<backend, platform, ret, inits, mpc, counter, tmp, iter,
                   exits, ignored, steps>>

Read(t) ==
    /\ pc[t] = "read"
    /\ tmp' = [tmp EXCEPT ![t] = counter]
    /\ pc' = [pc EXCEPT ![t] = "write"]
    /\ UNCHANGED <<backend, native, platform, ret, op, inits,
                   mpc, counter, iter, entries, exits, ignored, steps>>

Write(t) ==
    /\ pc[t] = "write"
    /\ counter' = tmp[t] + 1
    /\ pc' = [pc EXCEPT ![t] = "unlock"]
    /\ UNCHANGED <<backend, native, platform, ret, op, inits,
                   mpc, tmp, iter, entries, exits, ignored, steps>>

Unlock(t) ==
    /\ pc[t] = "unlock"
    /\ \E out \in Outcomes :
          /\ mutex_unlock(t, out)
          /\ pc' = [pc EXCEPT ![t] =
                      IF out # "returned" THEN out
                      ELSE IF iter[t] + 1 = MIters THEN "done" ELSE "idle"]
    /\ iter' = [iter EXCEPT ![t] = iter[t] + 1]
    /\ exits' = exits + 1
    /\ op' = [name |-> "unlock", by |-> t, from |-> st]
    /\ UNCHANGED <<backend, platform, ret, inits, mpc, counter, tmp,
                   entries, ignored, steps>>

MainDestroy ==
    /\ mpc = "run"
    /\ \A t \in Threads : pc[t] \in {"idle", "done"}
    /\ \E out \in Outcomes :
          /\ mutex_destroy(out)
          /\ mpc' = IF out # "returned" THEN out
                    ELSE IF inits < MaxInits THEN "init" ELSE "end"
    /\ op' = [name |-> "destroy", by |-> Main, from |-> st]
    /\ UNCHANGED <<backend, platform, ret, inits, pc, counter, tmp, iter,
                   entries, exits, ignored, steps>>

Next ==
    \/ MainInit
    \/ MainDestroy
    \/ \E t \in Threads : CallLock(t)
    \/ \E t \in Threads : LockReturn(t)
    \/ \E t \in Threads : Read(t)
    \/ \E t \in Threads : Write(t)
    \/ \E t \in Threads : Unlock(t)

Spec == Init /\ [][Next]_vars

\* Native threads: the operating system keeps running every thread that
\* can take a step.
Fairness ==
    /\ WF_vars(MainInit)
    /\ WF_vars(MainDestroy)
    /\ \A t \in Threads :
          /\ WF_vars(CallLock(t))
          /\ WF_vars(LockReturn(t))
          /\ WF_vars(Read(t))
          /\ WF_vars(Write(t))
          /\ WF_vars(Unlock(t))

\* The workload on the builds that have a native primitive, under fair
\* scheduling.
InitReal == Init /\ Real

FairSpec == InitReal /\ [][Next]_vars /\ Fairness

\* The workload on one initialised mutex: the main thread destroys the
\* mutex only after every worker has finished its iterations.
MainDestroyAtEnd ==
    /\ AllFinished
    /\ MainDestroy

NextRun ==
    \/ MainInit
    \/ MainDestroyAtEnd
    \/ \E t \in Threads : CallLock(t)
    \/ \E t \in Threads : LockReturn(t)
    \/ \E t \in Threads : Read(t)
    \/ \E t \in Threads : Write(t)
    \/ \E t \in Threads : Unlock(t)

FairnessRun ==
    /\ WF_vars(MainInit)
    /\ WF_vars(MainDestroyAtEnd)
    /\ \A t \in Threads :
          /\ WF_vars(CallLock(t))
          /\ WF_vars(LockReturn(t))
          /\ WF_vars(Read(t))
          /\ WF_vars(Write(t))
          /\ WF_vars(Unlock(t))

RunSpec == InitReal /\ [][NextRun]_vars /\ FairnessRun

\* ------------------------------------------------------------- free-form use
\* Any thread calls any of the four functions in any order and in any state
\* of the mutex: the wrapper checks nothing, so every call reaches the native
\* primitive.
AnyInit(t) ==
    /\ pc[t] = "idle"
    /\ steps < MaxSteps
    /\ \E status \in Statuses, out \in Outcomes :
          /\ mutex_init(status, out)
          /\ ret' = IF out = "returned" THEN {status} ELSE {}
          /\ pc' = [pc EXCEPT ![t] = IF out = "returned" THEN "idle" ELSE out]
    /\ inits' = inits + 1
    /\ steps' = steps + 1
    /\ op' = [name |-> "init", by |-> t, from |-> st]
    /\ UNCHANGED <<backend, mpc, counter, tmp, iter, entries, exits, ignored>>

AnyCallLock(t) ==
    /\ pc[t] = "idle"
    /\ steps < MaxSteps
    /\ pc' = [pc EXCEPT ![t] = "inlock"]
    /\ steps' = steps + 1
    /\ UNCHANGED <<backend, native, platform, ret, op, inits,
                   mpc, counter, tmp, iter, entries, exits, ignored>>

AnyLockReturn(t) ==
    /\ pc[t] = "inlock"
    /\ \E out \in Outcomes :
          /\ mutex_lock(t, out)
          /\ pc' = [pc EXCEPT ![t] = IF out = "returned" THEN "idle" ELSE out]
    /\ op' = [name |-> "lock", by |-> t, from |-> st]
    /\ UNCHANGED <<backend, platform, ret, inits, mpc, counter, tmp, iter,
                   entries, exits, ignored, steps>>

AnyUnlock(t) ==
    /\ pc[t] = "idle"
    /\ steps < MaxSteps
    /\ \E out \in Outcomes :
          /\ mutex_unlock(t, out)
          /\ pc' = [pc EXCEPT ![t] = IF out = "returned" THEN "idle" ELSE out]
    /\ steps' = steps + 1
    /\ op' = [name |-> "unlock", by |-> t, from |-> st]
    /\ UNCHANGED <<backend, platform, ret, inits, mpc, counter, tmp, iter,
                   entries, exits, ignored>>

AnyDestroy(t) ==
    /\ pc[t] = "idle"
    /\ steps < MaxSteps
    /\ \E out \in Outcomes :
          /\ mutex_destroy(out)
          /\ pc' = [pc EXCEPT ![t] = IF out = "returned" THEN "idle" ELSE out]
    /\ steps' = steps + 1
    /\ op' = [name |-> "destroy", by |-> t, from |-> st]
    /\ UNCHANGED <<backend, platform, ret, inits, mpc, counter, tmp, iter,
                   entries, exits, ignored>>

NextAny ==
    \/ \E t \in Threads : AnyInit(t)
    \/ \E t \in Threads : AnyCallLock(t)
    \/ \E t \in Threads : AnyLockReturn(t)
    \/ \E t \in Threads : AnyUnlock(t)
    \/ \E t \in Threads : AnyDestroy(t)

SpecAny == Init /\ [][NextAny]_vars

\* ------------------------------------------------------------- properties
InCS(t) == pc[t] \in {"read", "write", "unlock"}
Holders == {t \in Threads : InCS(t)}
Waiters == {t \in Threads : pc[t] = "inlock"}
AllDone == AllFinished

\* The program used the mutex as documented: the workers only run on a
\* mutex whose mutex_init returned 0.
Proper == Real /\ ~ignored

\* Under documented use no call ever meets undefined behaviour.
ProperIsDefined == Proper => st # "Undef"

\* C1: on a build with a real backend, after mutex_init has returned 0, at
\* most one thread is between the return of its mutex_lock and its call of
\* mutex_unlock, in every reachable state of every interleaving.
C1_MutualExclusion ==
    (Proper /\ ret = {0}) => Cardinality(Holders) <= 1

\* C1 witness: a thread is inside its critical section while the other has
\* called mutex_lock and is held back.
C1_Witness ==
    /\ Proper /\ ret = {0}
    /\ Cardinality(Holders) = 1
    /\ Waiters # {}

\* The increments the workers of S have written so far: one per finished
\* iteration, and one for a worker that has written and not yet unlocked.
RECURSIVE Increments(_)
Increments(S) ==
    IF S = {} THEN 0
    ELSE LET t == CHOOSE x \in S : TRUE
         IN  iter[t] + (IF pc[t] = "unlock" THEN 1 ELSE 0)
                + Increments(S \ {t})

\* C2: with NThreads threads each doing lock; read; write counter + 1;
\* unlock MIters times on one initialised mutex, the counter is
\* NThreads * MIters once all threads have finished; no update is lost on
\* the way (the counter always equals the increments written so far).
C2_NoLostUpdates ==
    /\ (Proper /\ AllDone) => counter = NThreads * MIters
    /\ Proper => counter = Increments(Threads)

\* C2 witness: every worker has finished its iterations on a real backend.
C2_Witness ==
    Proper /\ AllDone /\ exits = NThreads * MIters

\* C3: a thread that called mutex_lock while another thread holds the mutex
\* stays in mutex_lock in every step taken while the mutex is held; the
\* mutex stops being held only by the holder's mutex_unlock; so entries and
\* exits of the critical section alternate (entries - exits is 0 or 1).
C3_BlockingAcquire ==
    /\ [](Proper => (entries - exits) \in {0, 1})
    /\ [][Proper =>
            /\ \A t \in Threads :
                  (pc[t] = "inlock" /\ st = "Locked" /\ owner # {t})
                     => pc'[t] = "inlock"
            /\ (st = "Locked" /\ st' # "Locked")
                  => (op'.name = "unlock" /\ owner = {op'.by})]_vars

\* C3 witness: after a first hand-over, a thread is again waiting in
\* mutex_lock while another thread holds the mutex.
C3_Witness ==
    /\ Proper
    /\ exits >= 1
    /\ \E t \in Threads, u \in Threads :
          t # u /\ pc[t] = "inlock" /\ InCS(u) /\ st = "Locked" /\ owner = {u}

C5_Original ==
    /\ platform = "failed" => (ret # {} /\ 0 \notin ret)
    /\ (ret = {0} /\ platform # "undefined") => (Real /\ platform = "ok")

\* C5 amended: on POSIX a failed pthread_mutex_init makes mutex_init return
\* its nonzero status; with the Windows SDK mutex_init has no failure
\* status (it returns 0 whenever it returns, and a failing
\* InitializeCriticalSection raises instead of returning); on every backend
\* mutex_init returns 0 only when the native primitive was prepared.
C5_InitFailure ==
    /\ (backend = "posix" /\ platform = "failed") => (ret # {} /\ ret \subseteq PosixErrors)
    /\ (backend = "win_sdk" /\ platform = "failed") => ret = {}
    /\ backend = "win_sdk" => ret \subseteq {0}
    /\ (ret = {0} /\ platform # "undefined") => (Real /\ platform = "ok")

\* C5 witness: with the Windows SDK the platform initialisation failed and
\* the caller got no status: the call raised.
C5_Witness ==
    /\ backend = "win_sdk"
    /\ platform = "failed"
    /\ ret = {}
    /\ \E t \in Threads : pc[t] = "raised"

\* The last change of the native state: from where, by which call, to where.
Edge == <<op.from, op.name, st>>

LifecycleEdges ==
    { <<"Uninit", "init", "Ready">>,
      <<"Ready", "lock", "Locked">>,
      <<"Locked", "unlock", "Ready">>,
      <<"Ready", "destroy", "Destroyed">> }

\* C6 as stated: the mutex only moves Uninit -> Ready (mutex_init),
\* Ready <-> Locked (mutex_lock / mutex_unlock) and Ready -> Destroyed
\* (mutex_destroy); nothing, a later mutex_init included, leaves Destroyed.
C6_Original ==
    (st # op.from /\ st # "Undef") => Edge \in LifecycleEdges

\* C6 amended: the mutex only moves along those edges and along
\* Destroyed -> Ready by a later mutex_init (Destroyed is not terminal); a
\* call the native contract defines in every case (mutex_init on an
\* uninitialised or destroyed mutex, mutex_lock or mutex_destroy on a ready
\* one) never leaves the state undefined.
C6_Lifecycle ==
    /\ (st # op.from /\ st # "Undef")
          => Edge \in LifecycleEdges \cup { <<"Destroyed", "init", "Ready">> }
    /\ (st = "Undef" /\ op.from # "Undef")
          => <<op.from, op.name>> \notin
                { <<"Uninit", "init">>, <<"Destroyed", "init">>,
                  <<"Ready", "lock">>, <<"Ready", "destroy">> }

\* C6 witness: a destroyed mutex was initialised again and is Ready.
C6_Witness ==
    Edge = <<"Destroyed", "init", "Ready">>

\* C7 as stated: on no backend does the native primitive count a second
\* acquisition by the thread that holds it.
C7_Original ==
    count <= 1

\* C7 amended: the POSIX backend is not reentrant (no acquisition count
\* above 1; a second mutex_lock by the holder is outside the default
\* mutex's contract and is never a defined acquisition), the build without
\* the SDK holds nothing, but with the Windows SDK the holder's second
\* mutex_lock returns at once as an acquisition and raises the count.
C7_Reentrancy ==
    /\ backend = "posix" => count <= 1
    /\ backend = "win_nosdk" => (count = 0 /\ owner = {})
    /\ \A t \in Threads :
          (pc[t] = "inlock" /\ st = "Locked" /\ owner = {t}) =>
             /\ backend = "posix" =>
                   ~ENABLED (AnyLockReturn(t) /\ st' # "Undef")
             /\ backend = "win_sdk" =>
                   ENABLED (AnyLockReturn(t) /\ pc'[t] = "idle"
                              /\ st' = "Locked" /\ count' = count + 1)

\* C7 witness: with the Windows SDK a thread holds the critical section
\* twice.
C7_Witness ==
    backend = "win_sdk" /\ st = "Locked" /\ count = 2

C9_OnlyLockWaits ==
    /\ \A t \in Threads :
          (pc[t] = "idle" /\ steps < MaxSteps /\ st # "Undef") =>
             /\ ENABLED (AnyInit(t) /\ pc'[t] = "idle")
             /\ ENABLED (AnyUnlock(t) /\ pc'[t] = "idle")
             /\ ENABLED (AnyDestroy(t) /\ pc'[t] = "idle")
    /\ \A t \in Threads :
          (pc[t] = "inlock" /\ st # "Undef" /\ ~ENABLED AnyLockReturn(t)) =>
             (Real /\ st = "Locked" /\ owner # {} /\ owner # {t})

\* C9 witness: a thread is held back in mutex_lock by the owner, which is
\* free to call any of the other three functions.
C9_Witness ==
    /\ Real
    /\ st = "Locked"
    /\ steps < MaxSteps
    /\ \E t \in Threads, u \in Threads :
          /\ owner = {u} /\ pc[u] = "idle"
          /\ pc[t] = "inlock" /\ ~ENABLED AnyLockReturn(t)

\* C10: after any number of mutex_init; mutex_destroy repetitions with no
\* mutex_lock or mutex_unlock in between, no native primitive is live, as
\* before the first repetition.
C10_NoLeak ==
    (Proper /\ entries = 0 /\ Waiters = {} /\ mpc \in {"init", "end"})
       => live = 0

\* C10 witness: MaxInits repetitions of mutex_init; mutex_destroy, none
\* with a lock in between, have completed.
C10_Witness ==
    /\ backend = "win_sdk"
    /\ inits = MaxInits
    /\ op = [name |-> "destroy", by |-> Main, from |-> "Ready"]
    /\ st = "Destroyed"
    /\ entries = 0 /\ Waiters = {}
    /\ live = 0

\* C11 as stated: whatever calls were made, mutex_init more than once
\* included, never more than one native primitive exists for the mutex_t
\* (no second instance is created, none is orphaned), and exactly one backs
\* it while it is initialised.
C11_Original ==
    /\ live <= 1
    /\ st \in {"Ready", "Locked"} => live = 1

\* C11 amended: as long as every call keeps to the native contract, exactly
\* one native primitive backs an initialised mutex and none exists for an
\* uninitialised or destroyed one; a second native instance appears only by
\* mutex_init on a mutex that is already initialised, which the wrapper
\* forwards like any other and which can orphan the first instance.
C11_OneInstance ==
    /\ st \in {"Ready", "Locked"} => live = 1
    /\ st \in {"Uninit", "Destroyed"} => live = 0
    /\ live \in {0, 1, 2}
    /\ live = 2 =>
          /\ st = "Undef"
          /\ op.name = "init"
          /\ op.from \in {"Ready", "Locked"}

\* C11 witness: mutex_init on an initialised mutex left two native
\* primitives, the first one orphaned.
C11_Witness ==
    /\ Real
    /\ live = 2
    /\ op.name = "init"
    /\ op.from = "Ready"

\* C12: without the Windows SDK mutex_init returns -1 and mutex_lock and
\* mutex_unlock do nothing and return at once: the native state never
\* changes, mutex_lock can return for every thread that called it whoever
\* is inside, and mutex_unlock can return for every thread about to call
\* it.  (That two threads are then between mutex_lock and mutex_unlock
\* together is the witness.)
C12_DegradedNoOp ==
    backend = "win_nosdk" =>
       /\ st = "Uninit" /\ owner = {} /\ count = 0 /\ live = 0
       /\ inits > 0 => ret = {-1}
       /\ \A t \in Threads :
             /\ pc[t] = "inlock" => ENABLED (LockReturn(t) /\ pc'[t] = "read")
             /\ pc[t] = "unlock" => ENABLED (Unlock(t) /\ pc'[t] \in {"idle", "done"})

\* C12 witness: without the SDK, after mutex_init returned -1, every worker
\* is past mutex_lock and before mutex_unlock's return at the same time.
C12_Witness ==
    /\ backend = "win_nosdk"
    /\ ret = {-1}
    /\ Holders = Threads
    /\ Cardinality(Holders) >= 2

\* A call by t the native contract does not cover: the caller's state of
\* the mutex is one the wrapper would have to check for.
NotOwner(t) == st = "Locked" /\ owner # {t}
NoMutex == st \in {"Uninit", "Destroyed"}

\* C13: the wrapper checks neither ownership nor state.  On a real backend
\* mutex_unlock by a thread that does not hold the mutex, and mutex_lock,
\* mutex_unlock and mutex_destroy on a mutex that is uninitialised (its
\* mutex_init failed or was never called) or destroyed, always reach the
\* native primitive (the call is never turned away with the native state
\* untouched); and no call but mutex_init changes the status the caller
\* has been given.
C13_NoChecks ==
    /\ [](Real =>
            \A t \in Threads :
               /\ (pc[t] = "idle" /\ steps < MaxSteps /\ (NotOwner(t) \/ NoMutex)) =>
                     /\ ENABLED (AnyUnlock(t) /\ st' = "Undef")
                     /\ ~ENABLED (AnyUnlock(t) /\ st' = st)
               /\ (pc[t] = "idle" /\ steps < MaxSteps /\ NoMutex) =>
                     /\ ENABLED (AnyDestroy(t) /\ st' = "Undef")
                     /\ ~ENABLED (AnyDestroy(t) /\ st' = st)
               /\ (pc[t] = "inlock" /\ NoMutex) =>
                     /\ ENABLED (AnyLockReturn(t) /\ st' = "Undef")
                     /\ ~ENABLED (AnyLockReturn(t) /\ st' = st))
    /\ [][ret' # ret => op'.name = "init"]_vars

\* C13 witness: a thread that did not hold the locked mutex called
\* mutex_unlock and the call reached the native primitive.
C13_Witness ==
    /\ Real
    /\ op.name = "unlock"
    /\ op.from = "Locked"
    /\ owner # {} /\ owner # {op.by}
    /\ st = "Undef"

Unfinished == {t \in Threads : pc[t] # "done"}
Blocked(t) == pc[t] = "inlock" /\ ~ENABLED LockReturn(t)

\* C14: with NThreads threads each running lock; critical section; unlock
\* MIters times on one initialised mutex, never relocking, no reachable
\* state has every unfinished thread blocked in mutex_lock, and under
\* weakly fair scheduling every thread finishes all its iterations.
C14_Termination ==
    /\ [](Proper /\ Unfinished # {} => \E t \in Unfinished : ~Blocked(t))
    /\ (Proper /\ mpc = "run") ~> AllDone

\* C14 witness: a worker is blocked in mutex_lock while the other workers
\* have iterations left (and one of them holds the mutex).
C14_Witness ==
    /\ Proper
    /\ mpc = "run"
    /\ \E t \in Threads : Blocked(t)
    /\ \A t \in Threads : iter[t] < MIters
    /\ exits >= 1

====
